---- MODULE Spec2Model ----
(***************************************************************************)
(* ARGO data fetch: the catalog-driven downloader                          *)
(* (modules/file_exisitance_checking.py), the scanner-driven downloader    *)
(* (modules/netcdf_file_dowload.py) and the index downloader               *)
(* (modules/index_file_download.py) as state machines.                     *)
(*                                                                         *)
(* Strings are sequences of one-character strings, so that startswith,     *)
(* endswith, replace, split and slicing are computed as Python computes    *)
(* them.  A file's content is a sequence of bytes; the remote file of      *)
(* size M has content <<1, ..., M>>.                                       *)
(***************************************************************************)
EXTENDS Integers, Sequences, FiniteSets, TLC

\* ------------------------------------------------------------------ bounds

\* Rows returned by the catalog query.
MaxRows == 2
\* Length, in chunks, of a remote file (one chunk carries one byte here).
MaxLen == 2
\* Largest explicit retries argument of a direct download_nc_file call.
MaxRetriesArg == 3

\* ----------------------------------------------------------------- strings

StartsWith(s, p) == Len(s) >= Len(p) /\ SubSeq(s, 1, Len(p)) = p

EndsWith(s, p) == Len(s) >= Len(p) /\ SubSeq(s, Len(s) - Len(p) + 1, Len(s)) = p

\* s[n:]
Drop(s, n) == SubSeq(s, n + 1, Len(s))

\* s.replace(old, new): every non-overlapping occurrence, left to right.
RECURSIVE Replace(_, _, _)
Replace(s, old, new) ==
    IF Len(s) < Len(old) \/ Len(old) = 0 THEN s
    ELSE IF StartsWith(s, old) THEN new \o Replace(Drop(s, Len(old)), old, new)
    ELSE <<Head(s)>> \o Replace(Tail(s), old, new)

\* s.split(sep)[-1]: what follows the last occurrence of sep found scanning
\* from the left; the whole of s when sep does not occur.
RECURSIVE SplitLast(_, _)
SplitLast(s, sep) ==
    LET hits == {i \in 1..(Len(s) - Len(sep) + 1) : SubSeq(s, i, i + Len(sep) - 1) = sep}
    IN  IF hits = {} THEN s
        ELSE LET first == CHOOSE i \in hits : \A j \in hits : i <= j
             IN  SplitLast(Drop(s, first + Len(sep) - 1), sep)

\* os.path.join(a, b) on POSIX: an absolute b discards a.
PathJoin(a, b) ==
    IF StartsWith(b, <<"/">>) THEN b
    ELSE IF a = <<>> \/ EndsWith(a, <<"/">>) THEN a \o b
    ELSE a \o <<"/">> \o b

\* The string literals of the source.  The host of BASE_URL and the name of
\* LOCAL_FOLDER are shortened: no operation of the code inspects them.
DataSlash == <<"d", "a", "t", "a", "/">>
DataDataSlash == DataSlash \o DataSlash
DotNc == <<".", "n", "c">>
DotNnc == <<".", "n", "n", "c">>
REGION == <<"i", "n", "d", "i", "a", "n">>
LOCAL_FOLDER == <<".", "/", "a", "r", "g", "o">>
BASE_URL == <<"h", ":", "/", "/", "n", "/">> \o DataSlash

\* ------------------------------------------- file_exisitance_checking.py

\* A retry setting that lets each task make one attempt: one more than the
\* source's.
RetriesOne == 0 + 1

RETRIES == 0

\* A file of the local store: absent, or present with its content.
Absent == [exists |-> FALSE, data |-> <<>>]
File(bytes) == [exists |-> TRUE, data |-> bytes]

\* The first n bytes of a remote file.
Bytes(n) == [k \in 1..n |-> k]

\* A validity check that looks at existence only.
is_file_present(store, local_path) == store[local_path].exists

is_file_valid(store, local_path) ==
    store[local_path].exists /\ Len(store[local_path].data) > 0

clean_file_path(file_path) ==
    LET p1 == IF StartsWith(file_path, DataDataSlash) THEN Drop(file_path, Len(DataSlash))
              ELSE IF StartsWith(file_path, DataSlash) THEN Drop(file_path, Len(DataSlash))
              ELSE file_path
    IN  IF ~EndsWith(p1, DotNc) THEN Replace(p1, DotNnc, DotNc) ELSE p1

\* unique_files of query_index, as the set the comprehension builds.
query_index(rows) == {clean_file_path(rows[i]) : i \in DOMAIN rows}

\* The orders in which a Python set may be listed.
Orderings(S) ==
    {s \in [1..Cardinality(S) -> S] : \A i, j \in 1..Cardinality(S) : i # j => s[i] # s[j]}

\* A query_index that cleans the rows into a list, without the set.
CleanedRows(rows) == {[i \in DOMAIN rows |-> clean_file_path(rows[i])]}

\* list({...}): the lists query_index may return.
unique_files(rows) == Orderings(query_index(rows))

\* local_path of fetch_data's planning loop.
LocalPathOf(file_path) ==
    PathJoin(PathJoin(LOCAL_FOLDER, REGION), SplitLast(file_path, REGION \o <<"/">>))

UrlOf(file_path) == BASE_URL \o file_path

\* ---------------------------------------------------------------- state

VARIABLES
    entry,            \* the function this run was entered by
    catalog,          \* rows of the catalog query (results of cur.fetchall)
    fs,               \* the local store: local path -> file
    fpc,              \* fetch_data: position
    run,              \* fetch_data: number of the current invocation
    files,            \* fetch_data: files
    total_files,      \* fetch_data: total_files
    download_tasks,   \* fetch_data: download_tasks, <<url, local_path>> pairs
    local_paths,      \* fetch_data: local_paths
    failed_downloads, \* fetch_data: failed_downloads
    already_existing, \* fetch_data: already_existing
    downloaded_count, \* fetch_data: downloaded_count
    returned,         \* fetch_data: value returned by the last invocation
    summaries,        \* fetch_data: the summaries printed so far, one per invocation
    task,             \* the download_nc_file coroutines, by position
    site,             \* scanner: the remote directory tree
    max_connections,  \* scanner: self.max_connections
    spc,              \* scan_and_download: position
    all_files,        \* scan_and_download: all_files, <<file_url, local_path>> pairs
    ftask,            \* the scan_folder coroutines, by position
    sem,              \* scan_and_download: free slots of the semaphore
    dtask,            \* the download_file coroutines, by position
    batch_start,      \* scan_and_download: i of the batch loop
    completed,        \* scan_and_download: completed
    remote_size,      \* index: size M of the remote file, whose content is Bytes(M)
    initial_file,     \* index: the file at save_path when download_file was called
    idx_pc,           \* index download_file: position
    attempt,          \* index download_file: attempt
    existing_size,    \* index download_file: existing_size
    mode,             \* index download_file: mode
    headers,          \* index download_file: the Range offset of headers, -1 for none
    body,             \* index download_file: the response body still to be written
    wrote,            \* index download_file: bytes written by the current attempt
    request_log,      \* index download_file: the GET requests issued, with their status
    attempt_log,      \* index download_file: how each finished attempt ended
    idx_result,       \* index download_file: how the call ended
    index_files,      \* download_index_files: files, as get_file_links returned them
    success_count,    \* download_index_files: success_count
    dif_pc,           \* download_index_files: position
    dif_returned,     \* download_index_files: the value returned
    fetch_log,        \* scanner: the results of the fetch_url calls, by URL
    peer,             \* index: the locals of a second download_file thread, not running now
    db,               \* save_to_database: files, futures, success_count, result
    workflow,         \* main_workflow: region, year, position and the steps run
    call              \* a pure function applied on its own: argument and result

catVars == <<entry, catalog, fs, fpc, run, files, total_files, download_tasks,
             local_paths, failed_downloads, already_existing, downloaded_count,
             returned, summaries, task>>

fetchLocals == <<files, total_files, download_tasks, local_paths, failed_downloads,
                 already_existing, downloaded_count>>

scanVars == <<site, max_connections, spc, all_files, ftask, sem, dtask, batch_start,
              completed, fetch_log>>

auxVars == <<workflow, call, peer, db>>

difVars == <<index_files, success_count, dif_pc, dif_returned>>

idxVars == <<remote_size, initial_file, idx_pc, attempt, existing_size, mode, headers,
             body, wrote, request_log, attempt_log, idx_result, difVars>>

\* What the catalog-driven downloader leaves alone.
notCatalog == <<scanVars, idxVars, auxVars>>

vars == <<catVars, scanVars, idxVars, auxVars>>

\* main_workflow not entered, and no function applied on its own.
AuxIdle ==
    /\ workflow = [pc |-> "idle"]
    /\ call = [pc |-> "idle"]
    /\ peer = [idx_pc |-> "idle"]
    /\ db = [pc |-> "idle"]

\* The scanner-driven downloader not entered.
ScanIdle ==
    /\ site = <<>>
    /\ max_connections = 0
    /\ spc = "idle"
    /\ all_files = <<>>
    /\ ftask = <<>>
    /\ sem = 0
    /\ dtask = <<>>
    /\ batch_start = 0
    /\ completed = 0
    /\ fetch_log = <<>>

\* download_index_files not entered.
DifIdle ==
    /\ index_files = <<>>
    /\ success_count = 0
    /\ dif_pc = "idle"
    /\ dif_returned = "none"

\* The index downloader not entered.
IndexIdle ==
    /\ DifIdle
    /\ remote_size = 0
    /\ initial_file = Absent
    /\ idx_pc = "idle"
    /\ attempt = 0
    /\ existing_size = 0
    /\ mode = "wb"
    /\ headers = -1
    /\ body = <<>>
    /\ wrote = 0
    /\ request_log = <<>>
    /\ attempt_log = <<>>
    /\ idx_result = "none"

\* ------------------------------------------------------- catalog inputs

\* Invocations of fetch_data over the same catalog result.
MaxRuns == 2

A == <<"a">>
B == <<"b">>
Sl == <<"/">>

\* Raw catalog paths: the prefix absent, single or duplicated, the suffix
\* right or misspelt.
RawPaths ==
    {pre \o REGION \o Sl \o A \o suf :
        pre \in {<<>>, DataSlash, DataDataSlash}, suf \in {DotNc, DotNnc}}
    \cup {DataSlash \o REGION \o Sl \o B \o DotNc}

LocalPaths == {LocalPathOf(clean_file_path(r)) : r \in RawPaths}

SeqsUpTo(S, n) == UNION {[1..k -> S] : k \in 0..n}

\* A local file before the run: absent, empty, or holding some bytes.
InitialFiles == {Absent, File(<<>>), File(Bytes(1))}

\* ------------------------------------------------------ download_nc_file

NewTask(url, local_path, retries) ==
    [url |-> url, local_path |-> local_path, retries |-> retries,
     pc |-> "pending", i |-> 0, total |-> 0, written |-> 0, result |-> FALSE,
     requests |-> 0, outcomes |-> <<>>]

\* A loop that stops one iteration short of its budget.
NextIterOneShort(tk) ==
    IF tk.i + 1 < tk.retries
    THEN [tk EXCEPT !.i = @ + 1, !.pc = "get", !.requests = @ + 1]
    ELSE [tk EXCEPT !.pc = "done", !.result = FALSE]

\* The head of `for _ in range(retries)`: the next iteration issues its
\* session.get, an exhausted range falls through to `return False`.
NextIter(tk) ==
    IF tk.i < tk.retries
    THEN [tk EXCEPT !.i = @ + 1, !.pc = "get", !.requests = @ + 1]
    ELSE [tk EXCEPT !.pc = "done", !.result = FALSE]

Note(tk, outcome) == [tk EXCEPT !.outcomes = Append(@, outcome)]

\* f.write at the handle's own offset; a file truncated meanwhile by another
\* opener is extended with zero bytes up to the offset.
WriteAt(file, pos, b) ==
    LET n == IF Len(file.data) > pos THEN Len(file.data) ELSE pos
    IN  File([k \in 1..n |-> IF k = pos THEN b
                              ELSE IF k <= Len(file.data) THEN file.data[k] ELSE 0])

\* resp.status == 200: the body is written next.
On200(tk, n) == [tk EXCEPT !.pc = "open", !.total = n]

\* A 404 handled like any other status.
On404Retried(tk) == NextIter(Note(tk, "404"))

\* resp.status == 404: return False.
On404(tk) == [Note(tk, "404") EXCEPT !.pc = "done", !.result = FALSE]

\* Any other status: neither branch is taken and the loop goes on.
OnOtherStatus(tk) == NextIter(Note(tk, "5xx"))

\* except: await asyncio.sleep(1)
OnException(tk, outcome) == [Note(tk, outcome) EXCEPT !.pc = "sleep"]

TaskRunnable == entry = "download_nc_file" \/ fpc = "gather"

\* The coroutine's first step: makedirs, then the loop head.
NcStart(t) ==
    /\ TaskRunnable
    /\ task[t].pc = "pending"
    /\ task' = [task EXCEPT ![t] = NextIter(@)]
    /\ UNCHANGED <<notCatalog, entry, catalog, fs, fpc, run, fetchLocals, returned, summaries>>

\* The coroutine's first step when os.makedirs raises: the call is outside
\* the try block, so the exception leaves download_nc_file.
NcMakedirsError(t) ==
    /\ TaskRunnable
    /\ task[t].pc = "pending"
    /\ task' = [task EXCEPT ![t].pc = "raised"]
    /\ UNCHANGED <<notCatalog, entry, catalog, fs, fpc, run, fetchLocals, returned, summaries>>

NcResponse200(t) ==
    /\ task[t].pc = "get"
    /\ \E n \in 0..MaxLen : task' = [task EXCEPT ![t] = On200(@, n)]
    /\ UNCHANGED <<notCatalog, entry, catalog, fs, fpc, run, fetchLocals, returned, summaries>>

NcResponse404(t) ==
    /\ task[t].pc = "get"
    /\ task' = [task EXCEPT ![t] = On404(@)]
    /\ UNCHANGED <<notCatalog, entry, catalog, fs, fpc, run, fetchLocals, returned, summaries>>

NcResponseOther(t) ==
    /\ task[t].pc = "get"
    /\ task' = [task EXCEPT ![t] = OnOtherStatus(@)]
    /\ UNCHANGED <<notCatalog, entry, catalog, fs, fpc, run, fetchLocals, returned, summaries>>

\* session.get raises: timeout or connection error before a response.
NcRequestError(t) ==
    /\ task[t].pc = "get"
    /\ task' = [task EXCEPT ![t] = OnException(@, "timeout")]
    /\ UNCHANGED <<notCatalog, entry, catalog, fs, fpc, run, fetchLocals, returned, summaries>>

\* aiofiles.open(local_path, 'wb'): creates or truncates.
NcOpen(t) ==
    /\ task[t].pc = "open"
    /\ fs' = [fs EXCEPT ![task[t].local_path] = File(<<>>)]
    /\ task' = [task EXCEPT ![t].pc = "stream", ![t].written = 0]
    /\ UNCHANGED <<notCatalog, entry, catalog, fpc, run, fetchLocals, returned, summaries>>

NcWriteChunk(t) ==
    /\ task[t].pc = "stream"
    /\ task[t].written < task[t].total
    /\ fs' = [fs EXCEPT ![task[t].local_path] =
                 WriteAt(@, task[t].written + 1, task[t].written + 1)]
    /\ task' = [task EXCEPT ![t].written = @ + 1]
    /\ UNCHANGED <<notCatalog, entry, catalog, fpc, run, fetchLocals, returned, summaries>>

\* The body ended: return True.
NcStreamDone(t) ==
    /\ task[t].pc = "stream"
    /\ task[t].written = task[t].total
    /\ task' = [task EXCEPT ![t] = [Note(@, "200") EXCEPT !.pc = "done", !.result = TRUE]]
    /\ UNCHANGED <<notCatalog, entry, catalog, fs, fpc, run, fetchLocals, returned, summaries>>

\* Timeout or connection reset while chunks are still to come.
NcStreamError(t) ==
    /\ task[t].pc = "stream"
    /\ task[t].written < task[t].total
    /\ task' = [task EXCEPT ![t] = OnException(@, "reset")]
    /\ UNCHANGED <<notCatalog, entry, catalog, fs, fpc, run, fetchLocals, returned, summaries>>

NcSleepDone(t) ==
    /\ task[t].pc = "sleep"
    /\ task' = [task EXCEPT ![t] = NextIter(@)]
    /\ UNCHANGED <<notCatalog, entry, catalog, fs, fpc, run, fetchLocals, returned, summaries>>

NextNc ==
    \/ \E t \in DOMAIN task : NcStart(t)
    \/ \E t \in DOMAIN task : NcMakedirsError(t)
    \/ \E t \in DOMAIN task : NcResponse200(t)
    \/ \E t \in DOMAIN task : NcResponse404(t)
    \/ \E t \in DOMAIN task : NcResponseOther(t)
    \/ \E t \in DOMAIN task : NcRequestError(t)
    \/ \E t \in DOMAIN task : NcOpen(t)
    \/ \E t \in DOMAIN task : NcWriteChunk(t)
    \/ \E t \in DOMAIN task : NcStreamDone(t)
    \/ \E t \in DOMAIN task : NcStreamError(t)
    \/ \E t \in DOMAIN task : NcSleepDone(t)

\* ------------------------------------------------------------ fetch_data

\* The planning loop: a task for every file whose local copy is not valid.
RECURSIVE PlanTasks(_, _)
PlanTasks(fl, store) ==
    IF fl = <<>> THEN <<>>
    ELSE LET local_path == LocalPathOf(Head(fl))
             rest == PlanTasks(Tail(fl), store)
         IN  IF ~is_file_valid(store, local_path)
             THEN <<<<UrlOf(Head(fl)), local_path>>>> \o rest
             ELSE rest

\* already_existing = total_files - len(download_tasks)
AlreadyExisting(total, tasks) == total - Len(tasks)

\* A counting loop that has lost its `if success`.
CountEveryResult(results) == Len(results)

\* The loop over the gathered results: downloaded_count.
RECURSIVE CountDownloaded(_)
CountDownloaded(results) ==
    IF results = <<>> THEN 0
    ELSE (IF Head(results) THEN 1 ELSE 0) + CountDownloaded(Tail(results))

\* The loop over the gathered results: failed_downloads.
RECURSIVE FailedUrls(_, _)
FailedUrls(results, tasks) ==
    IF results = <<>> THEN <<>>
    ELSE (IF Head(results) THEN <<>> ELSE <<Head(tasks)[1]>>)
         \o FailedUrls(Tail(results), Tail(tasks))

\* query_index, and the return on an empty catalog result.
FetchQuery ==
    /\ entry = "fetch_data"
    /\ fpc = "query"
    /\ \E order \in unique_files(catalog) :
        /\ files' = order
        /\ total_files' = Len(order)
        /\ IF Len(order) = 0
           THEN fpc' = "returned" /\ returned' = <<>>
           ELSE fpc' = "plan" /\ UNCHANGED returned
    /\ UNCHANGED <<notCatalog, entry, catalog, fs, run, download_tasks, local_paths, failed_downloads,
                   already_existing, downloaded_count, summaries, task>>

\* The loop over files, and the coroutines handed to asyncio.gather.
FetchPlan ==
    /\ fpc = "plan"
    /\ local_paths' = [k \in 1..Len(files) |-> LocalPathOf(files[k])]
    /\ download_tasks' = PlanTasks(files, fs)
    /\ failed_downloads' = <<>>
    /\ already_existing' = AlreadyExisting(total_files, download_tasks')
    /\ downloaded_count' = 0
    /\ IF download_tasks' # <<>>
       THEN /\ task' = [k \in 1..Len(download_tasks') |->
                           NewTask(download_tasks'[k][1], download_tasks'[k][2], RETRIES)]
            /\ fpc' = "gather"
       ELSE /\ task' = <<>>
            /\ fpc' = "summary"
    /\ UNCHANGED <<notCatalog, entry, catalog, fs, run, files, total_files, returned, summaries>>

\* asyncio.gather returned: the loop over results.
FetchGather ==
    /\ fpc = "gather"
    /\ \A t \in DOMAIN task : task[t].pc = "done"
    /\ LET results == [t \in DOMAIN task |-> task[t].result]
       IN  /\ downloaded_count' = downloaded_count + CountDownloaded(results)
           /\ failed_downloads' = failed_downloads \o FailedUrls(results, download_tasks)
    /\ fpc' = "summary"
    /\ UNCHANGED <<notCatalog, entry, catalog, fs, run, files, total_files, download_tasks, local_paths,
                   already_existing, returned, summaries, task>>

\* asyncio.gather (without return_exceptions) passes on the first exception
\* of a task: fetch_data raises, and asyncio.run cancels the tasks that are
\* still running.
FetchGatherRaise ==
    /\ fpc = "gather"
    /\ \E t \in DOMAIN task : task[t].pc = "raised"
    /\ fpc' = "raised"
    /\ UNCHANGED <<notCatalog, entry, catalog, fs, run, fetchLocals, returned, summaries, task>>

\* The final summary, and return local_paths.
FetchSummary ==
    /\ fpc = "summary"
    /\ summaries' = Append(summaries,
            [total |-> total_files, existing |-> already_existing,
             downloaded |-> downloaded_count, failed |-> Len(failed_downloads)])
    /\ returned' = local_paths
    /\ fpc' = "returned"
    /\ UNCHANGED <<notCatalog, entry, catalog, fs, run, fetchLocals, task>>

\* fetch_data is invoked again over the same catalog result and the local
\* store the previous invocation left.
FetchAgain ==
    /\ fpc = "returned"
    /\ run < MaxRuns
    /\ run' = run + 1
    /\ fpc' = "query"
    /\ files' = <<>>
    /\ total_files' = 0
    /\ download_tasks' = <<>>
    /\ local_paths' = <<>>
    /\ failed_downloads' = <<>>
    /\ already_existing' = 0
    /\ downloaded_count' = 0
    /\ task' = <<>>
    /\ UNCHANGED <<notCatalog, entry, catalog, fs, returned, summaries>>

NextFetch ==
    \/ FetchQuery
    \/ FetchPlan
    \/ FetchGather
    \/ FetchGatherRaise
    \/ FetchSummary
    \/ FetchAgain

\* What check_and_download_files returns once fetch_data has ended:
\* local_paths when it is not empty, [] otherwise and on any exception.
check_and_download_files ==
    IF fpc = "raised" THEN <<>>
    ELSE IF returned # <<>> THEN returned ELSE <<>>

\* ------------------------------------------------ catalog specification

InitFetchLocals ==
    /\ files = <<>>
    /\ total_files = 0
    /\ download_tasks = <<>>
    /\ local_paths = <<>>
    /\ failed_downloads = <<>>
    /\ already_existing = 0
    /\ downloaded_count = 0
    /\ returned = <<>>
    /\ summaries = <<>>
    /\ run = 1

\* The catalog-driven downloader not entered.
CatalogIdle ==
    /\ catalog = <<>>
    /\ fpc = "idle"
    /\ task = <<>>
    /\ InitFetchLocals

\* fetch_data(region, year) over a catalog result and a local store.
InitFetch ==
    /\ entry = "fetch_data"
    /\ catalog \in SeqsUpTo(RawPaths, MaxRows)
    /\ fs \in [LocalPaths -> InitialFiles]
    /\ fpc = "query"
    /\ task = <<>>
    /\ InitFetchLocals

\* download_nc_file(session, url, local_path, retries) called on its own.
InitNc ==
    /\ entry = "download_nc_file"
    /\ catalog = <<>>
    /\ fs \in [LocalPaths -> InitialFiles]
    /\ fpc = "idle"
    /\ \E f \in query_index(<<DataSlash \o REGION \o Sl \o A \o DotNc>>), r \in 0..MaxRetriesArg :
          task = <<NewTask(UrlOf(f), LocalPathOf(f), r)>>
    /\ InitFetchLocals

InitCatalog == (InitFetch \/ InitNc) /\ ScanIdle /\ IndexIdle /\ AuxIdle

NextCatalog == NextFetch \/ NextNc

SpecCatalog == InitCatalog /\ [][NextCatalog]_vars

\* ------------------------------------------------- claims on the catalog

Transient == {"timeout", "reset", "5xx"}

PostPlan == fpc \in {"gather", "summary"} \/ (fpc = "returned" /\ Len(summaries) = run)

\* C1: when fetch_data reaches its final summary, already_existing +
\* downloaded_count + len(failed_downloads) equals total_files, every planned
\* task has exactly one result, and that result is counted in exactly one of
\* downloaded_count and failed_downloads.
C1_CounterConsistency ==
    /\ fpc = "summary" =>
        /\ already_existing + downloaded_count + Len(failed_downloads) = total_files
        /\ Len(task) = Len(download_tasks)
        /\ downloaded_count = Cardinality({t \in DOMAIN task : task[t].result})
        /\ Len(failed_downloads) = Cardinality({t \in DOMAIN task : ~task[t].result})
    /\ \A k \in DOMAIN summaries :
        summaries[k].existing + summaries[k].downloaded + summaries[k].failed
            = summaries[k].total

\* A summary over a mix of valid and failing files.
C1_Witness ==
    /\ fpc = "summary"
    /\ already_existing > 0
    /\ Len(failed_downloads) > 0

\* C2: no two download tasks of one fetch_data run have the same local_path,
\* so no two download_nc_file coroutines have the same file open for writing
\* at the same time.
C2_NoDuplicateLocalPath ==
    /\ \A i, j \in DOMAIN download_tasks :
        i # j => download_tasks[i][2] # download_tasks[j][2]
    /\ \A t, u \in DOMAIN task :
        (t # u /\ task[t].pc = "stream" /\ task[u].pc = "stream")
            => task[t].local_path # task[u].local_path

C6_RequestBeforeFailed ==
    entry = "fetch_data" =>
        \A t \in DOMAIN task :
            (task[t].pc = "done" /\ ~task[t].result) => task[t].requests >= 1

\* C8: in download_nc_file, once a request is answered 404 the task has
\* returned False: no request follows the 404 and no backoff wait is entered.
C8_NotFoundTerminalNc ==
    \A t \in DOMAIN task :
        (\E k \in DOMAIN task[t].outcomes : task[t].outcomes[k] = "404") =>
            /\ task[t].pc = "done"
            /\ ~task[t].result
            /\ task[t].outcomes[Len(task[t].outcomes)] = "404"
            /\ task[t].requests = Len(task[t].outcomes)

\* A 404 received with attempts still left in the budget.
C8_Witness ==
    \E t \in DOMAIN task :
        /\ task[t].outcomes # <<>>
        /\ task[t].outcomes[Len(task[t].outcomes)] = "404"
        /\ task[t].i < task[t].retries
        /\ task[t].pc = "done"

\* C10 (download_nc_file): a task that returns failure after an attempt was
\* cut mid-stream, with part of the body written, leaves no file at
\* local_path.
C10_PartialRemovedNc ==
    \A t \in DOMAIN task :
        (/\ task[t].pc = "done"
         /\ ~task[t].result
         /\ task[t].outcomes # <<>>
         /\ task[t].outcomes[Len(task[t].outcomes)] = "reset"
         /\ task[t].written > 0)
            => ~fs[task[t].local_path].exists

\* C21: every path of the list fetch_data has returned (the list
\* check_and_download_files hands on) is the path of a file that exists and is
\* not empty.
C21_HandOffValid ==
    (entry = "fetch_data" /\ fpc = "returned")
        => \A k \in DOMAIN returned :
              fs[returned[k]].exists /\ Len(fs[returned[k]].data) > 0

\* C22: whatever rows the catalog returns, the list query_index returns holds
\* the cleaned path of every row and holds no path twice, and no two download
\* tasks of a run are for the same cleaned path (the same URL).
C22_DedupBeforePlanning ==
    (entry = "fetch_data" /\ fpc \in {"plan", "gather", "summary"}) =>
        /\ \A i, j \in DOMAIN files : i # j => files[i] # files[j]
        /\ \A r \in DOMAIN catalog : \E k \in DOMAIN files : files[k] = clean_file_path(catalog[r])
        /\ \A i, j \in DOMAIN download_tasks :
              i # j => download_tasks[i][1] # download_tasks[j][1]

\* Two rows with one cleaned path, the file missing: one file, one task.
C22_Witness ==
    /\ fpc = "gather"
    /\ Len(catalog) = 2
    /\ catalog[1] # catalog[2]
    /\ Len(files) = 1
    /\ Len(download_tasks) = 1

\* The same row twice.
C22_WitnessRepeated ==
    /\ fpc = "gather"
    /\ Len(catalog) = 2
    /\ catalog[1] = catalog[2]
    /\ Len(download_tasks) = 1

\* The plan has just been made: no coroutine has run yet.
PlanFresh ==
    /\ entry = "fetch_data"
    /\ \/ (fpc = "gather" /\ \A t \in DOMAIN task : task[t].pc = "pending")
       \/ (fpc = "summary" /\ task = <<>>)

\* C23: fetch_data plans a download task for a file exactly when its local
\* copy is absent or zero-length; with every file valid it creates no
\* coroutine (no session, no request); and no step of a run in which nothing
\* was planned changes a local file.
C23_PlannerMissingOnly ==
    /\ [](PlanFresh =>
            /\ \A k \in DOMAIN files :
                  (\E j \in DOMAIN download_tasks :
                        download_tasks[j] = <<UrlOf(files[k]), LocalPathOf(files[k])>>)
                    <=> ~(/\ fs[LocalPathOf(files[k])].exists
                          /\ Len(fs[LocalPathOf(files[k])].data) > 0)
            /\ Len(task) = Len(download_tasks)
            /\ (\A k \in DOMAIN files :
                    /\ fs[LocalPathOf(files[k])].exists
                    /\ Len(fs[LocalPathOf(files[k])].data) > 0)
                  => (download_tasks = <<>> /\ task = <<>> /\ fpc = "summary"))
    /\ [][(entry = "fetch_data" /\ task = <<>> /\ task' = <<>>) => fs' = fs]_vars

\* A plan over a valid file and a zero-length one: one task.
C23_Witness ==
    /\ PlanFresh
    /\ Len(files) = 2
    /\ Len(download_tasks) = 1
    /\ \E k \in DOMAIN files : fs[LocalPathOf(files[k])] = File(<<>>)
    /\ \E k \in DOMAIN files : fs[LocalPathOf(files[k])] = File(Bytes(1))

\* A run over a populated store ended without a task.
C23_WitnessPopulated ==
    /\ entry = "fetch_data"
    /\ fpc = "returned"
    /\ Len(summaries) = run
    /\ total_files = 2
    /\ already_existing = 2
    /\ task = <<>>

\* C16: a failure inside one download_nc_file task of fetch_data, a failure
\* of os.makedirs included, never leaves the task as an exception and never
\* makes fetch_data raise.
C16_TaskFailureContained ==
    entry = "fetch_data" =>
        /\ fpc # "raised"
        /\ \A t \in DOMAIN task : task[t].pc # "raised"

\* C19: when fetch_data has ended with zero files from the catalog, or with
\* download tasks planned and none of them successful, check_and_download_files
\* returns the empty list.
C19_CatalogFailureReported ==
    (/\ entry = "fetch_data"
     /\ fpc = "returned"
     /\ \/ total_files = 0
        \/ (download_tasks # <<>> /\ downloaded_count = 0))
        => check_and_download_files = <<>>

\* ------------------------------------------------ netcdf_file_dowload.py

\* Largest max_connections of a scanner run.
MaxConn == 2

\* batch_size of scan_and_download.
BatchSize == 1000

\* URLs and local paths of the scanner are sequences of path segments.
YearUrl == <<"data", "indian", "2020">>
LocalRoot == <<"argo_float_data", "indian", "2020">>

\* Anchors of a listing, as parse_apache_directory_fast returns them.
Anchor(href, name) == [href |-> href, name |-> name]
FA == Anchor("a.nc", "a.nc")
FA2 == Anchor("./a.nc", "a.nc")
FB == Anchor("b.nc", "b.nc")
FC == Anchor("c.nc", "c.nc")
FE == Anchor("e.nc", "e.nc")
FG == Anchor("g.nc", "g.nc")
FH == Anchor("h.nc", "h.nc")
D1 == Anchor("d1", "d1")
D2 == Anchor("d2", "d2")
S1 == Anchor("s1", "s1")
T1 == Anchor("t1", "t1")

Listing(fl, dirs) == [files |-> fl, dirs |-> dirs]

\* A year directory with files only.
SiteFlat(fl) == YearUrl :> Listing(fl, <<>>)

\* A year directory with a file, a folder holding a file and a subdirectory,
\* and a second folder holding a file.
SiteWide ==
    (YearUrl :> Listing(<<FA>>, <<D1, D2>>))
    @@ ((YearUrl \o <<"d1">>) :> Listing(<<FC>>, <<S1>>))
    @@ ((YearUrl \o <<"d1", "s1">>) :> Listing(<<>>, <<>>))
    @@ ((YearUrl \o <<"d2">>) :> Listing(<<FH>>, <<>>))

\* A year directory three levels deep.
SiteDeep ==
    (YearUrl :> Listing(<<>>, <<D1>>))
    @@ ((YearUrl \o <<"d1">>) :> Listing(<<FC>>, <<S1>>))
    @@ ((YearUrl \o <<"d1", "s1">>) :> Listing(<<FE>>, <<T1>>))
    @@ ((YearUrl \o <<"d1", "s1", "t1">>) :> Listing(<<FG>>, <<>>))

\* The remote trees of the model: empty, one file, the same anchor twice, two
\* hrefs with one anchor name, two files, and the two trees with folders.
Sites ==
    {SiteFlat(fl) : fl \in {<<>>, <<FA>>, <<FA, FA>>, <<FA, FA2>>, <<FA, FB>>}}
    \cup {SiteWide, SiteDeep}

ScanLocalPaths ==
    {LocalRoot \o <<n>> : n \in {"a.nc", "b.nc"}}
    \cup {LocalRoot \o <<"d1", "c.nc">>, LocalRoot \o <<"d1", "s1", "e.nc">>,
          LocalRoot \o <<"d2", "h.nc">>}

\* "Add direct .nc files": the candidates of the year listing.
RootFiles(listing) ==
    [k \in DOMAIN listing.files |->
        <<YearUrl \o <<listing.files[k].href>>, LocalRoot \o <<listing.files[k].name>>>>]

\* scan_folder: the candidates of the folder's own listing.
FolderFiles(folder_url, folder_name, listing) ==
    [k \in DOMAIN listing.files |->
        <<folder_url \o <<listing.files[k].href>>,
          LocalRoot \o <<folder_name, listing.files[k].name>>>>]

\* scan_folder: the candidates of one subdirectory's listing.
SubFiles(subdir_url, folder_name, subdir_name, listing) ==
    [k \in DOMAIN listing.files |->
        <<subdir_url \o <<listing.files[k].href>>,
          LocalRoot \o <<folder_name, subdir_name, listing.files[k].name>>>>]

NewFolderTask(folder_url, folder_name) ==
    [url |-> folder_url, name |-> folder_name, pc |-> "fetch", files |-> <<>>,
     subdirs |-> <<>>]

NewDownload(file_url, local_path) ==
    [url |-> file_url, local_path |-> local_path, pc |-> "pending", total |-> 0,
     written |-> 0, result |-> FALSE, outcome |-> "none"]

RECURSIVE Flatten(_)
Flatten(ss) == IF ss = <<>> THEN <<>> ELSE Head(ss) \o Flatten(Tail(ss))

\* fetch_url(session, url) returned: text (TRUE) or None (FALSE).
Logged(log, url, ok) ==
    IF url \in DOMAIN log THEN [log EXCEPT ![url] = Append(@, ok)]
    ELSE log @@ (url :> <<ok>>)

\* What the scanner-driven downloader leaves alone.
notScan == <<catalog, fpc, run, fetchLocals, returned, summaries, task, idxVars, auxVars>>

\* The session is opened and the year listing requested.
ScStart ==
    /\ spc = "start"
    /\ spc' = "root_fetch"
    /\ UNCHANGED <<notScan, fetch_log, entry, fs, site, max_connections, all_files, ftask, sem, dtask,
                   batch_start, completed>>

\* fetch_url returned the year listing: its files, and a scan_folder
\* coroutine for each of its directories.
ScRootOk ==
    /\ spc = "root_fetch"
    /\ YearUrl \in DOMAIN site
    /\ LET listing == site[YearUrl]
       IN  /\ all_files' = all_files \o RootFiles(listing)
           /\ IF listing.dirs # <<>>
              THEN /\ ftask' = [k \in DOMAIN listing.dirs |->
                                   NewFolderTask(YearUrl \o <<listing.dirs[k].href>>,
                                                 listing.dirs[k].name)]
                   /\ spc' = "folders"
              ELSE /\ ftask' = <<>>
                   /\ spc' = "scanned"
    /\ fetch_log' = Logged(fetch_log, YearUrl, TRUE)
    /\ UNCHANGED <<notScan, entry, fs, site, max_connections, sem, dtask, batch_start,
                   completed>>

\* fetch_url returned None (timeout, non-200, exception): `continue`.
ScRootFail ==
    /\ spc = "root_fetch"
    /\ spc' = "scanned"
    /\ fetch_log' = Logged(fetch_log, YearUrl, FALSE)
    /\ UNCHANGED <<notScan, entry, fs, site, max_connections, all_files, ftask, sem, dtask,
                   batch_start, completed>>

\* scan_folder: the folder's listing arrived.
SfFetchOk(f) ==
    /\ spc = "folders"
    /\ ftask[f].pc = "fetch"
    /\ ftask[f].url \in DOMAIN site
    /\ LET listing == site[ftask[f].url]
       IN  ftask' = [ftask EXCEPT
                ![f].files = FolderFiles(ftask[f].url, ftask[f].name, listing),
                ![f].subdirs = listing.dirs,
                ![f].pc = IF listing.dirs = <<>> THEN "done" ELSE "subfetch"]
    /\ fetch_log' = Logged(fetch_log, ftask[f].url, TRUE)
    /\ UNCHANGED <<notScan, entry, fs, site, max_connections, spc, all_files, sem, dtask,
                   batch_start, completed>>

\* scan_folder: the folder's listing could not be fetched.
SfFetchFail(f) ==
    /\ spc = "folders"
    /\ ftask[f].pc = "fetch"
    /\ ftask' = [ftask EXCEPT ![f].pc = "done"]
    /\ fetch_log' = Logged(fetch_log, ftask[f].url, FALSE)
    /\ UNCHANGED <<notScan, entry, fs, site, max_connections, spc, all_files, sem, dtask,
                   batch_start, completed>>

\* A scan_folder that goes down into the subdirectories of a subdirectory.
SfSubOkDeeper(f) ==
    /\ spc = "folders"
    /\ ftask[f].pc = "subfetch"
    /\ LET sub == Head(ftask[f].subdirs)
           subdir_url == ftask[f].url \o <<sub.href>>
       IN  /\ subdir_url \in DOMAIN site
           /\ ftask' = [ftask EXCEPT
                ![f].files = @ \o SubFiles(subdir_url, ftask[f].name, sub.name, site[subdir_url]),
                ![f].url = IF site[subdir_url].dirs # <<>> THEN subdir_url ELSE @,
                ![f].subdirs = Tail(@) \o site[subdir_url].dirs,
                ![f].pc = IF Tail(ftask[f].subdirs) \o site[subdir_url].dirs = <<>>
                          THEN "done" ELSE "subfetch"]
    /\ fetch_log' = Logged(fetch_log, ftask[f].url \o <<Head(ftask[f].subdirs).href>>, TRUE)
    /\ UNCHANGED <<notScan, entry, fs, site, max_connections, spc, all_files, sem, dtask,
                   batch_start, completed>>

\* scan_folder: the listing of the next subdirectory arrived.
SfSubOk(f) ==
    /\ spc = "folders"
    /\ ftask[f].pc = "subfetch"
    /\ LET sub == Head(ftask[f].subdirs)
           subdir_url == ftask[f].url \o <<sub.href>>
       IN  /\ subdir_url \in DOMAIN site
           /\ ftask' = [ftask EXCEPT
                ![f].files = @ \o SubFiles(subdir_url, ftask[f].name, sub.name, site[subdir_url]),
                ![f].subdirs = Tail(@),
                ![f].pc = IF Tail(ftask[f].subdirs) = <<>> THEN "done" ELSE "subfetch"]
    /\ fetch_log' = Logged(fetch_log, ftask[f].url \o <<Head(ftask[f].subdirs).href>>, TRUE)
    /\ UNCHANGED <<notScan, entry, fs, site, max_connections, spc, all_files, sem, dtask,
                   batch_start, completed>>

\* A failed subdirectory fetch that makes scan_folder give up its folder.
SfSubFailDropsFolder(f) ==
    /\ spc = "folders"
    /\ ftask[f].pc = "subfetch"
    /\ ftask' = [ftask EXCEPT ![f].files = <<>>, ![f].subdirs = <<>>, ![f].pc = "done"]
    /\ fetch_log' = Logged(fetch_log, ftask[f].url \o <<Head(ftask[f].subdirs).href>>, FALSE)
    /\ UNCHANGED <<notScan, entry, fs, site, max_connections, spc, all_files, sem, dtask,
                   batch_start, completed>>

\* scan_folder: the listing of the next subdirectory could not be fetched.
SfSubFail(f) ==
    /\ spc = "folders"
    /\ ftask[f].pc = "subfetch"
    /\ ftask' = [ftask EXCEPT
            ![f].subdirs = Tail(@),
            ![f].pc = IF Tail(ftask[f].subdirs) = <<>> THEN "done" ELSE "subfetch"]
    /\ fetch_log' = Logged(fetch_log, ftask[f].url \o <<Head(ftask[f].subdirs).href>>, FALSE)
    /\ UNCHANGED <<notScan, entry, fs, site, max_connections, spc, all_files, sem, dtask,
                   batch_start, completed>>

\* asyncio.gather(*folder_tasks) returned: all_files.extend(result) in order.
ScFoldersDone ==
    /\ spc = "folders"
    /\ \A f \in DOMAIN ftask : ftask[f].pc = "done"
    /\ all_files' = all_files \o Flatten([f \in DOMAIN ftask |-> ftask[f].files])
    /\ spc' = "scanned"
    /\ UNCHANGED <<notScan, fetch_log, entry, fs, site, max_connections, ftask, sem, dtask, batch_start,
                   completed>>

\* "No files found!", or the semaphore and the download coroutines.
\* asyncio.Semaphore(value) raises ValueError for value < 0, which leaves
\* scan_and_download.
ScPlan ==
    /\ spc = "scanned"
    /\ IF all_files = <<>>
       THEN /\ spc' = "returned"
            /\ UNCHANGED <<sem, dtask>>
       ELSE IF max_connections < 0
       THEN /\ spc' = "raised"
            /\ UNCHANGED <<sem, dtask>>
       ELSE /\ sem' = max_connections
            /\ dtask' = [k \in DOMAIN all_files |->
                            NewDownload(all_files[k][1], all_files[k][2])]
            /\ spc' = "batch"
    /\ UNCHANGED <<notScan, fetch_log, entry, fs, site, max_connections, all_files, ftask, batch_start,
                   completed>>

\* The coroutines of download_tasks[i:i + batch_size].
InBatch(d) == batch_start < d /\ d <= batch_start + BatchSize

\* Leaving `async with semaphore` with a result.
Finished(dt, result, outcome) ==
    [dt EXCEPT !.pc = "done", !.result = result, !.outcome = outcome]

\* A download_file that goes ahead without a free slot.
DfAcquireNoSlot(d) ==
    /\ spc = "batch"
    /\ InBatch(d)
    /\ dtask[d].pc = "pending"
    /\ IF fs[dtask[d].local_path].exists
       THEN /\ dtask' = [dtask EXCEPT ![d] = Finished(@, TRUE, "exists")]
            /\ sem' = sem
       ELSE /\ dtask' = [dtask EXCEPT ![d].pc = "get"]
            /\ sem' = sem - 1
    /\ UNCHANGED <<notScan, fetch_log, entry, fs, site, max_connections, spc, all_files, ftask,
                   batch_start, completed>>

\* A slot is taken and os.makedirs raises: except, return False.
DfMakedirsError(d) ==
    /\ spc = "batch"
    /\ InBatch(d)
    /\ dtask[d].pc = "pending"
    /\ sem > 0
    /\ dtask' = [dtask EXCEPT ![d] = Finished(@, FALSE, "oserror")]
    /\ UNCHANGED <<notScan, fetch_log, entry, fs, site, max_connections, spc, all_files, ftask, sem,
                   batch_start, completed>>

\* A slot is taken; makedirs; an existing file is skipped, otherwise the
\* request is issued.
DfAcquire(d) ==
    /\ spc = "batch"
    /\ InBatch(d)
    /\ dtask[d].pc = "pending"
    /\ sem > 0
    /\ IF fs[dtask[d].local_path].exists
       THEN /\ dtask' = [dtask EXCEPT ![d] = Finished(@, TRUE, "exists")]
            /\ sem' = sem
       ELSE /\ dtask' = [dtask EXCEPT ![d].pc = "get"]
            /\ sem' = sem - 1
    /\ UNCHANGED <<notScan, fetch_log, entry, fs, site, max_connections, spc, all_files, ftask,
                   batch_start, completed>>

DfResponse200(d) ==
    /\ dtask[d].pc = "get"
    /\ \E n \in 0..MaxLen : dtask' = [dtask EXCEPT ![d].pc = "open", ![d].total = n]
    /\ UNCHANGED <<notScan, fetch_log, entry, fs, site, max_connections, spc, all_files, ftask, sem,
                   batch_start, completed>>

\* Any status but 200: return False.
DfResponseOther(d) ==
    /\ dtask[d].pc = "get"
    /\ dtask' = [dtask EXCEPT ![d] = Finished(@, FALSE, "status")]
    /\ sem' = sem + 1
    /\ UNCHANGED <<notScan, fetch_log, entry, fs, site, max_connections, spc, all_files, ftask,
                   batch_start, completed>>

\* session.get raises: except, return False.
DfRequestError(d) ==
    /\ dtask[d].pc = "get"
    /\ dtask' = [dtask EXCEPT ![d] = Finished(@, FALSE, "timeout")]
    /\ sem' = sem + 1
    /\ UNCHANGED <<notScan, fetch_log, entry, fs, site, max_connections, spc, all_files, ftask,
                   batch_start, completed>>

\* aiofiles.open(local_path, 'wb'): creates or truncates.
DfOpen(d) ==
    /\ dtask[d].pc = "open"
    /\ fs' = [fs EXCEPT ![dtask[d].local_path] = File(<<>>)]
    /\ dtask' = [dtask EXCEPT ![d].pc = "stream", ![d].written = 0]
    /\ UNCHANGED <<notScan, fetch_log, entry, site, max_connections, spc, all_files, ftask, sem,
                   batch_start, completed>>

DfWriteChunk(d) ==
    /\ dtask[d].pc = "stream"
    /\ dtask[d].written < dtask[d].total
    /\ fs' = [fs EXCEPT ![dtask[d].local_path] =
                 WriteAt(@, dtask[d].written + 1, dtask[d].written + 1)]
    /\ dtask' = [dtask EXCEPT ![d].written = @ + 1]
    /\ UNCHANGED <<notScan, fetch_log, entry, site, max_connections, spc, all_files, ftask, sem,
                   batch_start, completed>>

\* The body ended: return True.
DfStreamDone(d) ==
    /\ dtask[d].pc = "stream"
    /\ dtask[d].written = dtask[d].total
    /\ dtask' = [dtask EXCEPT ![d] = Finished(@, TRUE, "200")]
    /\ sem' = sem + 1
    /\ UNCHANGED <<notScan, fetch_log, entry, fs, site, max_connections, spc, all_files, ftask,
                   batch_start, completed>>

\* A failure while streaming that keeps its slot.
DfStreamErrorHeld(d) ==
    /\ dtask[d].pc = "stream"
    /\ dtask[d].written < dtask[d].total
    /\ dtask' = [dtask EXCEPT ![d] = Finished(@, FALSE, "reset")]
    /\ UNCHANGED <<notScan, fetch_log, entry, fs, site, max_connections, spc, all_files, ftask, sem,
                   batch_start, completed>>

\* Timeout or connection reset while chunks are still to come: except,
\* return False.
DfStreamError(d) ==
    /\ dtask[d].pc = "stream"
    /\ dtask[d].written < dtask[d].total
    /\ dtask' = [dtask EXCEPT ![d] = Finished(@, FALSE, "reset")]
    /\ sem' = sem + 1
    /\ UNCHANGED <<notScan, fetch_log, entry, fs, site, max_connections, spc, all_files, ftask,
                   batch_start, completed>>

\* A gather that goes on only when every task of the batch returned True.
ScBatchDoneAllTrue ==
    /\ spc = "batch"
    /\ \A d \in DOMAIN dtask : InBatch(d) => (dtask[d].pc = "done" /\ dtask[d].result)
    /\ completed' = completed + Cardinality({d \in DOMAIN dtask : InBatch(d)})
    /\ IF batch_start + BatchSize < Len(dtask)
       THEN batch_start' = batch_start + BatchSize /\ spc' = "batch"
       ELSE batch_start' = batch_start /\ spc' = "summary"
    /\ UNCHANGED <<notScan, fetch_log, entry, fs, site, max_connections, all_files, ftask, sem, dtask>>

\* asyncio.gather(*batch) returned: completed += len(batch), next batch or
\* the final summary.
ScBatchDone ==
    /\ spc = "batch"
    /\ \A d \in DOMAIN dtask : InBatch(d) => dtask[d].pc = "done"
    /\ completed' = completed + Cardinality({d \in DOMAIN dtask : InBatch(d)})
    /\ IF batch_start + BatchSize < Len(dtask)
       THEN batch_start' = batch_start + BatchSize /\ spc' = "batch"
       ELSE batch_start' = batch_start /\ spc' = "summary"
    /\ UNCHANGED <<notScan, fetch_log, entry, fs, site, max_connections, all_files, ftask, sem, dtask>>

\* The final summary is printed and scan_and_download returns.
ScSummary ==
    /\ spc = "summary"
    /\ spc' = "returned"
    /\ UNCHANGED <<notScan, fetch_log, entry, fs, site, max_connections, all_files, ftask, sem, dtask,
                   batch_start, completed>>

NextScan ==
    \/ ScStart
    \/ ScRootOk
    \/ ScRootFail
    \/ \E f \in DOMAIN ftask : SfFetchOk(f)
    \/ \E f \in DOMAIN ftask : SfFetchFail(f)
    \/ \E f \in DOMAIN ftask : SfSubOk(f)
    \/ \E f \in DOMAIN ftask : SfSubFail(f)
    \/ ScFoldersDone
    \/ ScPlan
    \/ \E d \in DOMAIN dtask : DfMakedirsError(d)
    \/ \E d \in DOMAIN dtask : DfAcquire(d)
    \/ \E d \in DOMAIN dtask : DfResponse200(d)
    \/ \E d \in DOMAIN dtask : DfResponseOther(d)
    \/ \E d \in DOMAIN dtask : DfRequestError(d)
    \/ \E d \in DOMAIN dtask : DfOpen(d)
    \/ \E d \in DOMAIN dtask : DfWriteChunk(d)
    \/ \E d \in DOMAIN dtask : DfStreamDone(d)
    \/ \E d \in DOMAIN dtask : DfStreamError(d)
    \/ ScBatchDone
    \/ ScSummary

\* What download_netcdf_files returns: True when scan_and_download returned,
\* False when it raised.
download_netcdf_files ==
    CASE spc = "returned" -> "True"
      [] spc = "raised" -> "False"
      [] OTHER -> "none"

\* download_netcdf_files(region, year, max_connections) over a remote tree
\* and a local store in which a.nc is absent, empty or present; the
\* max_connections argument is any integer from -1 up.
InitScan ==
    /\ entry = "download_netcdf_files"
    /\ site \in Sites
    /\ max_connections \in (-1)..MaxConn
    /\ \E f \in InitialFiles :
          fs = [p \in ScanLocalPaths |-> IF p = LocalRoot \o <<"a.nc">> THEN f ELSE Absent]
    /\ spc = "start"
    /\ all_files = <<>>
    /\ ftask = <<>>
    /\ sem = 0
    /\ dtask = <<>>
    /\ batch_start = 0
    /\ completed = 0
    /\ fetch_log = <<>>
    /\ CatalogIdle
    /\ IndexIdle
    /\ AuxIdle

SpecScan == InitScan /\ [][NextScan]_vars

\* ------------------------------------------------- claims on the scanner

\* C3: download_file tasks with the same local_path never stream to that
\* file at overlapping times.
C3_NoOverlappingWriters ==
    \A d, e \in DOMAIN dtask :
        (d # e /\ dtask[d].local_path = dtask[e].local_path)
            => ~(dtask[d].pc = "stream" /\ dtask[e].pc = "stream")

\* C10 (UltraFastArgoDownloader.download_file): a task that returns failure
\* after its attempt was cut mid-stream, with part of the body written,
\* leaves no file at local_path.
C10_PartialRemovedScan ==
    \A d \in DOMAIN dtask :
        (/\ dtask[d].pc = "done"
         /\ ~dtask[d].result
         /\ dtask[d].outcome = "reset"
         /\ dtask[d].written > 0)
            => ~fs[dtask[d].local_path].exists

\* The download_file coroutines inside `async with semaphore`.
Holders == {d \in DOMAIN dtask : dtask[d].pc \in {"get", "open", "stream"}}

\* C13: for max_connections >= 1, the download_file tasks that hold a slot
\* are never more than max_connections, the free slots of the semaphore,
\* once it is created, are max_connections less the holders and never
\* negative, and a task that has not taken a slot has done nothing.
C13_BoundedConcurrency ==
    max_connections >= 1 =>
        /\ Cardinality(Holders) <= max_connections
        /\ sem >= 0
        /\ dtask # <<>> => sem = max_connections - Cardinality(Holders)
        /\ \A d \in DOMAIN dtask :
              dtask[d].pc = "pending" => (dtask[d].outcome = "none" /\ dtask[d].written = 0)

\* Every slot is held while a further task waits for one.
C13_Witness ==
    /\ max_connections >= 1
    /\ Cardinality(Holders) = max_connections
    /\ sem = 0
    /\ \E d \in DOMAIN dtask : InBatch(d) /\ dtask[d].pc = "pending"

\* C14: when every download_file task has returned, whichever way each one
\* left (file exists, makedirs error, 200 streamed to the end, other status,
\* exception in the request or while streaming), the free slots are
\* max_connections again.
C14_SlotRelease ==
    (dtask # <<>> /\ \A d \in DOMAIN dtask : dtask[d].pc = "done")
        => sem = max_connections

\* Three tasks that left by three ways: skipped, cut mid-stream, streamed to
\* the end.
C14_Witness ==
    /\ spc = "summary"
    /\ \E d \in DOMAIN dtask : dtask[d].outcome = "exists"
    /\ \E d \in DOMAIN dtask : dtask[d].outcome = "reset"
    /\ \E d \in DOMAIN dtask : dtask[d].outcome = "200"

\* C17: a run of download_netcdf_files with max_connections <= 0 ends with an
\* error before any listing is fetched and before any download task exists.
C17_InvalidLimitFatal ==
    max_connections <= 0 => (spc \in {"start", "raised"} /\ dtask = <<>>)

\* C20: download_netcdf_files returns True only when at least one file found
\* by the scan is present locally; it does not return True when the scan
\* found no file or when no download succeeded.
C20_ScanFailureReported ==
    download_netcdf_files = "True"
        => \E d \in DOMAIN dtask : fs[dtask[d].local_path].exists

\* The scan is over: all_files is complete.
Scanned == spc \in {"scanned", "batch", "summary", "returned", "raised"}

IsPrefix(p, s) == Len(p) <= Len(s) /\ SubSeq(s, 1, Len(p)) = p

\* The results of the fetches of a listing, none when it was not fetched.
Fetched(u) == IF u \in DOMAIN fetch_log THEN fetch_log[u] ELSE <<>>

\* C27: once the scan is over, every listing was fetched at most once; a
\* listing whose fetch failed has no candidate of its subtree in all_files;
\* every file of every listing that was fetched is a candidate, whatever
\* happened to the other listings; and the scan ended without raising.
C27_ScanFailuresLocal ==
    /\ \A u \in DOMAIN fetch_log : Len(fetch_log[u]) = 1
    /\ Scanned =>
        /\ \A u \in DOMAIN fetch_log :
              IF fetch_log[u][1]
              THEN \A k \in DOMAIN site[u].files :
                      \E c \in DOMAIN all_files : all_files[c][1] = u \o <<site[u].files[k].href>>
              ELSE \A c \in DOMAIN all_files : ~IsPrefix(u, all_files[c][1])
        /\ spc = "raised" => max_connections < 0

\* The first folder's listing failed; the root's file and the second
\* folder's file are candidates.
C27_Witness ==
    /\ spc = "scanned"
    /\ site = SiteWide
    /\ Fetched(YearUrl \o <<"d1">>) = <<FALSE>>
    /\ Fetched(YearUrl \o <<"d2">>) = <<TRUE>>
    /\ Len(all_files) = 2

\* A subdirectory's listing failed; the folder's own file is a candidate.
C27_WitnessSubdir ==
    /\ spc = "scanned"
    /\ site = SiteDeep
    /\ Fetched(YearUrl \o <<"d1", "s1">>) = <<FALSE>>
    /\ Len(all_files) = 1

\* C28: only the year directory, its subdirectories and their subdirectories
\* are ever fetched, and every candidate is a file of a fetched listing of
\* one of those three levels.
C28_ScanDepth ==
    /\ \A u \in DOMAIN fetch_log :
          IsPrefix(YearUrl, u) /\ Len(u) <= Len(YearUrl) + 2
    /\ Scanned =>
          \A c \in DOMAIN all_files :
              LET dir == SubSeq(all_files[c][1], 1, Len(all_files[c][1]) - 1)
              IN  /\ Len(dir) <= Len(YearUrl) + 2
                  /\ dir \in DOMAIN fetch_log
                  /\ fetch_log[dir] = <<TRUE>>

\* A tree three levels deep scanned to its second level: the file of the
\* third level is no candidate.
C28_Witness ==
    /\ spc = "scanned"
    /\ site = SiteDeep
    /\ Fetched(YearUrl \o <<"d1", "s1">>) = <<TRUE>>
    /\ Len(all_files) = 2
    /\ (YearUrl \o <<"d1", "s1", "t1">>) \notin DOMAIN fetch_log

\* C30: download_file skips the transfer only of a file that exists with a
\* size above zero; a zero-length file is transferred again.
C30_SkipOnlyComplete ==
    \A d \in DOMAIN dtask :
        dtask[d].outcome = "exists" => Len(fs[dtask[d].local_path].data) > 0

\* ----------------------------------------------- the two schedulers
\*
\* Both run on an asyncio event loop, which resumes every coroutine that is
\* ready, and every request carries a ClientTimeout, so a step that can be
\* taken is taken in the end.

\* The runs start from an empty local store, so that every file of the
\* catalog or of the listings gets a download task.
EmptyStore == \A p \in DOMAIN fs : ~fs[p].exists

InitSched ==
    \/ (InitCatalog /\ EmptyStore)
    \/ (InitScan /\ EmptyStore /\ max_connections >= 1)

\* One invocation of fetch_data (or of download_nc_file), or one of
\* scan_and_download.
NextSched ==
    \/ FetchQuery
    \/ FetchPlan
    \/ FetchGather
    \/ FetchGatherRaise
    \/ FetchSummary
    \/ NextNc
    \/ NextScan

SpecSched == InitSched /\ [][NextSched]_vars /\ WF_vars(NextSched)

\* C15: scan_and_download (for max_connections >= 1) and fetch_data always
\* return in the end, whatever the requests of their tasks meet, with every
\* task of scan_and_download processed; fetch_data leaves by an exception only
\* when a task raised outside any request.
C15_SchedulerCompletes ==
    /\ (entry = "download_netcdf_files" /\ max_connections >= 1)
          ~> (/\ spc = "returned"
              /\ completed = Len(dtask)
              /\ \A d \in DOMAIN dtask : dtask[d].pc = "done")
    /\ (entry = "fetch_data") ~> (fpc \in {"returned", "raised"})
    /\ [](fpc = "raised" => \E t \in DOMAIN task : task[t].pc = "raised")
    /\ [](fpc = "returned" => \A t \in DOMAIN task : task[t].pc = "done")

\* scan_and_download returned after each of its three tasks failed, by a
\* status, a timeout and a reset.
C15_Witness ==
    /\ spc = "returned"
    /\ Len(dtask) = 3
    /\ completed = 3
    /\ \A d \in DOMAIN dtask : ~dtask[d].result
    /\ \E d \in DOMAIN dtask : dtask[d].outcome = "status"
    /\ \E d \in DOMAIN dtask : dtask[d].outcome = "timeout"
    /\ \E d \in DOMAIN dtask : dtask[d].outcome = "reset"

\* fetch_data returned after each of its tasks failed.
C15_WitnessFetch ==
    /\ entry = "fetch_data"
    /\ fpc = "returned"
    /\ Len(task) = 2
    /\ \A t \in DOMAIN task : task[t].pc = "done" /\ ~task[t].result

\* ------------------------------------------------ index_file_download.py

MAX_RETRIES == 3

SavePath == <<"argo_index", "indian", "2020", "x_argoinv.txt">>

\* What download_index_files leaves alone, and what download_file does.
notDif == <<catalog, fpc, run, fetchLocals, returned, summaries, task, scanVars, auxVars>>
notIndex == <<notDif, difVars>>

\* The answers to requests.head(url): 200 with the content-length of the
\* file, 200 without a content-length, and anything else (non-200 or an
\* exception).
HeadResponses(size) ==
    {[ok |-> TRUE, content_length |-> size],
     [ok |-> TRUE, content_length |-> 0],
     [ok |-> FALSE, content_length |-> 0]}

is_file_complete(file, head) ==
    IF ~file.exists THEN FALSE
    ELSE IF head.ok
         THEN LET server_size == head.content_length
                  local_size == Len(file.data)
              IN  \/ (server_size > 0 /\ local_size = server_size)
                  \/ (server_size = 0 /\ local_size = 0)
         ELSE FALSE

\* existing_size at the head of an attempt.
ExistingSize(file) == IF file.exists THEN Len(file.data) ELSE 0

\* headers: a Range from existing_size when the file has content.
RangeHeader(size) == IF size > 0 THEN size ELSE -1

\* mode: append when resuming.
OpenMode(size) == IF size > 0 THEN "ab" ELSE "wb"

\* open(save_path, mode)
OpenFile(file, m) == IF m = "ab" /\ file.exists THEN file ELSE File(<<>>)

\* The body of a 200 (the whole file) or a 206 (the file from the offset).
ResponseBody(status, size, offset) ==
    IF status = "206" THEN SubSeq(Bytes(size), offset + 1, size) ELSE Bytes(size)

\* An except handler that leaves the file in place.
RemoveSkipped(file) == file

\* The except handler: os.remove(save_path) if it exists.
RemoveIfExists(file) == Absent

LogRequest(log, a, offset) ==
    Append(log, [attempt |-> a, range |-> offset, status |-> "pending"])

LogStatus(log, status) == [log EXCEPT ![Len(log)].status = status]

\* makedirs and is_file_complete: a complete file is skipped.
IdxCheck ==
    /\ idx_pc = "check"
    /\ \E head \in HeadResponses(remote_size) :
        IF is_file_complete(fs[SavePath], head)
        THEN idx_pc' = "done" /\ idx_result' = "skipped" /\ attempt' = attempt
        ELSE idx_pc' = "attempt" /\ idx_result' = idx_result /\ attempt' = 1
    /\ UNCHANGED <<notIndex, entry, fs, remote_size, initial_file, existing_size, mode,
                   headers, body, wrote, request_log, attempt_log>>

\* os.makedirs raises: the call is before the loop and its try block, so
\* the exception leaves download_file.
IdxMakedirsError ==
    /\ idx_pc = "check"
    /\ idx_pc' = "done"
    /\ idx_result' = "raised"
    /\ UNCHANGED <<notIndex, entry, fs, remote_size, initial_file, attempt, existing_size,
                   mode, headers, body, wrote, request_log, attempt_log>>

\* The head of an attempt: existing_size, headers, mode, and the GET.
IdxRequest ==
    /\ idx_pc = "attempt"
    /\ existing_size' = ExistingSize(fs[SavePath])
    /\ headers' = RangeHeader(existing_size')
    /\ mode' = OpenMode(existing_size')
    /\ request_log' = LogRequest(request_log, attempt, headers')
    /\ wrote' = 0
    /\ idx_pc' = "get"
    /\ UNCHANGED <<notIndex, entry, fs, remote_size, initial_file, attempt, body,
                   attempt_log, idx_result>>

\* 200, or 206 to a Range inside the file: open(save_path, mode) and the body.
IdxResponseBody ==
    /\ idx_pc \in {"get", "get2"}
    /\ \E status \in {"200"} \cup
            (IF headers >= 0 /\ headers < remote_size THEN {"206"} ELSE {}) :
        /\ body' = ResponseBody(status, remote_size, headers)
        /\ request_log' = LogStatus(request_log, status)
    /\ fs' = [fs EXCEPT ![SavePath] = OpenFile(@, mode)]
    /\ idx_pc' = "stream"
    /\ UNCHANGED <<notIndex, entry, remote_size, initial_file, attempt, existing_size, mode,
                   headers, wrote, attempt_log, idx_result>>

\* 416 handled like any other error status: the attempt fails.
IdxResponse416AsError ==
    /\ idx_pc = "get"
    /\ headers >= 0
    /\ headers >= remote_size
    /\ request_log' = LogStatus(request_log, "416")
    /\ attempt_log' = Append(attempt_log, "416")
    /\ idx_pc' = "except"
    /\ UNCHANGED <<notIndex, entry, fs, remote_size, initial_file, attempt, existing_size,
                   mode, headers, body, wrote, idx_result>>

\* 416 to a Range at or past the end of the file: the partial file is
\* removed and a fresh GET issued.
IdxResponse416 ==
    /\ idx_pc = "get"
    /\ headers >= 0
    /\ headers >= remote_size
    /\ fs' = [fs EXCEPT ![SavePath] = RemoveIfExists(@)]
    /\ headers' = -1
    /\ mode' = "wb"
    /\ request_log' = LogRequest(LogStatus(request_log, "416"), attempt, -1)
    /\ idx_pc' = "get2"
    /\ UNCHANGED <<notIndex, entry, remote_size, initial_file, attempt, existing_size, body,
                   wrote, attempt_log, idx_result>>

\* 404 or 5xx: raise_for_status raises.
IdxResponseError ==
    /\ idx_pc \in {"get", "get2"}
    /\ \E status \in {"404", "5xx"} :
        /\ request_log' = LogStatus(request_log, status)
        /\ attempt_log' = Append(attempt_log, status)
    /\ idx_pc' = "except"
    /\ UNCHANGED <<notIndex, entry, fs, remote_size, initial_file, attempt, existing_size,
                   mode, headers, body, wrote, idx_result>>

\* requests.get raises: timeout or connection error.
IdxRequestError ==
    /\ idx_pc \in {"get", "get2"}
    /\ request_log' = LogStatus(request_log, "timeout")
    /\ attempt_log' = Append(attempt_log, "timeout")
    /\ idx_pc' = "except"
    /\ UNCHANGED <<notIndex, entry, fs, remote_size, initial_file, attempt, existing_size,
                   mode, headers, body, wrote, idx_result>>

\* f.write(chunk)
IdxWriteChunk ==
    /\ idx_pc = "stream"
    /\ body # <<>>
    /\ fs' = [fs EXCEPT ![SavePath] = File(@.data \o <<Head(body)>>)]
    /\ body' = Tail(body)
    /\ wrote' = wrote + 1
    /\ UNCHANGED <<notIndex, entry, remote_size, initial_file, idx_pc, attempt,
                   existing_size, mode, headers, request_log, attempt_log, idx_result>>

\* The body ended: "Downloaded", return.
IdxStreamDone ==
    /\ idx_pc = "stream"
    /\ body = <<>>
    /\ attempt_log' = Append(attempt_log, "done")
    /\ idx_pc' = "done"
    /\ idx_result' = "success"
    /\ UNCHANGED <<notIndex, entry, fs, remote_size, initial_file, attempt, existing_size,
                   mode, headers, body, wrote, request_log>>

\* Timeout or connection reset while chunks are still to come.
IdxStreamError ==
    /\ idx_pc = "stream"
    /\ body # <<>>
    /\ attempt_log' = Append(attempt_log, "reset")
    /\ idx_pc' = "except"
    /\ UNCHANGED <<notIndex, entry, fs, remote_size, initial_file, attempt, existing_size,
                   mode, headers, body, wrote, request_log, idx_result>>

\* except: the partial file is removed, then time.sleep(5).
IdxExcept ==
    /\ idx_pc = "except"
    /\ fs' = [fs EXCEPT ![SavePath] = RemoveIfExists(@)]
    /\ idx_pc' = "sleep"
    /\ UNCHANGED <<notIndex, entry, remote_size, initial_file, attempt, existing_size, mode,
                   headers, body, wrote, request_log, attempt_log, idx_result>>

\* A loop that makes one attempt more than MAX_RETRIES.
IdxSleepDoneOneMore ==
    /\ idx_pc = "sleep"
    /\ IF attempt < MAX_RETRIES + 1
       THEN attempt' = attempt + 1 /\ idx_pc' = "attempt" /\ idx_result' = idx_result
       ELSE attempt' = attempt /\ idx_pc' = "done" /\ idx_result' = "failed"
    /\ UNCHANGED <<notIndex, entry, fs, remote_size, initial_file, existing_size, mode,
                   headers, body, wrote, request_log, attempt_log>>

\* The next attempt, or "Failed to download after MAX_RETRIES attempts".
IdxSleepDone ==
    /\ idx_pc = "sleep"
    /\ IF attempt < MAX_RETRIES
       THEN attempt' = attempt + 1 /\ idx_pc' = "attempt" /\ idx_result' = idx_result
       ELSE attempt' = attempt /\ idx_pc' = "done" /\ idx_result' = "failed"
    /\ UNCHANGED <<notIndex, entry, fs, remote_size, initial_file, existing_size, mode,
                   headers, body, wrote, request_log, attempt_log>>

\* The listings get_file_links may return: [] (nothing listed, or the
\* request failed) or the one index file of the year.
IndexListings == {<<>>, <<SavePath[Len(SavePath)]>>}

\* get_file_links; "No index files found", or download_file submitted to the
\* executor for the listed file.
DifList ==
    /\ dif_pc = "list"
    /\ \E listed \in IndexListings :
        /\ index_files' = listed
        /\ IF listed = <<>>
           THEN dif_pc' = "returned" /\ dif_returned' = "False" /\ idx_pc' = idx_pc
           ELSE dif_pc' = "wait" /\ dif_returned' = dif_returned /\ idx_pc' = "check"
    /\ UNCHANGED <<notDif, entry, fs, remote_size, initial_file, attempt, existing_size,
                   mode, headers, body, wrote, request_log, attempt_log, idx_result,
                   success_count>>

\* as_completed: future.result() raises only what download_file raised;
\* every other future is counted, and the count decides the return value.
DifCollect ==
    /\ dif_pc = "wait"
    /\ idx_pc = "done"
    /\ success_count' = success_count + (IF idx_result = "raised" THEN 0 ELSE 1)
    /\ dif_returned' = IF success_count' > 0 THEN "True" ELSE "False"
    /\ dif_pc' = "returned"
    /\ UNCHANGED <<notDif, entry, fs, remote_size, initial_file, idx_pc, attempt,
                   existing_size, mode, headers, body, wrote, request_log, attempt_log,
                   idx_result, index_files>>

NextIndex ==
    \/ DifList
    \/ DifCollect
    \/ IdxMakedirsError
    \/ IdxCheck
    \/ IdxRequest
    \/ IdxResponseBody
    \/ IdxResponse416
    \/ IdxResponseError
    \/ IdxRequestError
    \/ IdxWriteChunk
    \/ IdxStreamDone
    \/ IdxStreamError
    \/ IdxExcept
    \/ IdxSleepDone

\* download_file(url, save_path) with the remote file of any size and the
\* local file absent or holding a prefix of it (or all of it, or more).
InitDownloadFile ==
    /\ entry = "download_file"
    /\ remote_size \in 0..MaxLen
    /\ initial_file \in {Absent} \cup {File(Bytes(n)) : n \in 0..MaxLen}
    /\ fs = (SavePath :> initial_file)
    /\ idx_pc = "check"
    /\ attempt = 0
    /\ existing_size = 0
    /\ mode = "wb"
    /\ headers = -1
    /\ body = <<>>
    /\ wrote = 0
    /\ request_log = <<>>
    /\ attempt_log = <<>>
    /\ idx_result = "none"

\* download_index_files(region, year), with the same remote and local files.
InitDownloadIndexFiles ==
    /\ entry = "download_index_files"
    /\ remote_size \in 0..MaxLen
    /\ initial_file \in {Absent} \cup {File(Bytes(n)) : n \in 0..MaxLen}
    /\ fs = (SavePath :> initial_file)
    /\ idx_pc = "idle"
    /\ attempt = 0
    /\ existing_size = 0
    /\ mode = "wb"
    /\ headers = -1
    /\ body = <<>>
    /\ wrote = 0
    /\ request_log = <<>>
    /\ attempt_log = <<>>
    /\ idx_result = "none"
    /\ index_files = <<>>
    /\ success_count = 0
    /\ dif_pc = "list"
    /\ dif_returned = "none"

InitIndex ==
    /\ (InitDownloadFile /\ DifIdle) \/ InitDownloadIndexFiles
    /\ CatalogIdle
    /\ ScanIdle
    /\ AuxIdle

SpecIndex == InitIndex /\ [][NextIndex]_vars

\* --------------------------------------- claims on the index downloader

\* C5: a download_file call that starts from a partial file of N > 0 bytes,
\* with the remote file of size M > N, and ends in success has issued a
\* ranged request from offset N, has appended exactly M - N bytes and has
\* left a file of size exactly M.
C5_ResumeCorrect ==
    (/\ idx_result = "success"
     /\ initial_file.exists
     /\ Len(initial_file.data) > 0
     /\ remote_size > Len(initial_file.data))
        => /\ \E k \in DOMAIN request_log : request_log[k].range = Len(initial_file.data)
           /\ wrote = remote_size - Len(initial_file.data)
           /\ Len(fs[SavePath].data) = remote_size

\* C9: in the index download_file, a GET answered 404 is the last GET of
\* the call.
C9_NotFoundTerminalIdx ==
    \A k \in DOMAIN request_log :
        request_log[k].status = "404" => k = Len(request_log)

\* C18: download_index_files returns False when no index file was listed
\* and when the download_file call of the listed file gave up or raised; it
\* returns True only when that call ended with the file downloaded or found
\* complete.
C18_IndexFailureReported ==
    /\ (dif_pc = "returned" /\ (index_files = <<>> \/ idx_result \in {"failed", "raised"}))
          => dif_returned = "False"
    /\ dif_returned = "True" => idx_result \in {"success", "skipped"}

\* C11: when an attempt of the index download_file ended in an exception,
\* nothing is left at save_path while the call waits before the next attempt,
\* when the next attempt starts, and when the call gives up after MAX_RETRIES
\* attempts.
C11_FailureCleanup ==
    /\ idx_pc = "sleep" => ~fs[SavePath].exists
    /\ (idx_pc = "attempt" /\ attempt > 1) => ~fs[SavePath].exists
    /\ idx_result = "failed" => (attempt = MAX_RETRIES /\ ~fs[SavePath].exists)

\* The first attempt was cut after it had written a chunk, and the second
\* attempt is about to start.
C11_Witness ==
    /\ attempt_log = <<"reset">>
    /\ wrote > 0
    /\ idx_pc = "attempt"
    /\ attempt = 2

C34_SuccessYieldsRemote ==
    (idx_result = "success" /\ existing_size > 0)
        => /\ fs[SavePath].exists
           /\ Len(fs[SavePath].data) = remote_size

\* C35: when the file at save_path has the size of the remote file at the
\* call of download_file, it is there with that size when the call has
\* returned, whatever the HEAD and GET requests of the call were answered.
C35_CompleteFileKept ==
    (/\ idx_pc = "done"
     /\ initial_file.exists
     /\ Len(initial_file.data) = remote_size)
        => /\ fs[SavePath].exists
           /\ Len(fs[SavePath].data) = remote_size

\* ---------------------------------------- two threads on one index file

\* The locals of a download_file call.
Locals ==
    [idx_pc |-> idx_pc, attempt |-> attempt, existing_size |-> existing_size,
     mode |-> mode, headers |-> headers, body |-> body, wrote |-> wrote,
     request_log |-> request_log, attempt_log |-> attempt_log,
     idx_result |-> idx_result]

InCall(pc) == pc \notin {"idle", "done"}

\* get_file_links returned a listing with the href of the index file twice:
\* one download_file call is submitted to the executor for each entry, with
\* the same url and save_path.
DifListRepeated ==
    /\ dif_pc = "list"
    /\ peer.idx_pc = "idle"
    /\ index_files' = <<SavePath[Len(SavePath)], SavePath[Len(SavePath)]>>
    /\ dif_pc' = "wait"
    /\ idx_pc' = "check"
    /\ peer' = [Locals EXCEPT !.idx_pc = "check"]
    /\ UNCHANGED <<catalog, fpc, run, fetchLocals, returned, summaries, task, scanVars,
                   workflow, call, db, entry, fs, remote_size, initial_file, attempt,
                   existing_size, mode, headers, body, wrote, request_log, attempt_log,
                   idx_result, success_count, dif_returned>>

\* The executor's other worker thread is scheduled: its locals become the
\* current ones.
Switch ==
    /\ InCall(peer.idx_pc)
    /\ peer' = Locals
    /\ idx_pc' = peer.idx_pc
    /\ attempt' = peer.attempt
    /\ existing_size' = peer.existing_size
    /\ mode' = peer.mode
    /\ headers' = peer.headers
    /\ body' = peer.body
    /\ wrote' = peer.wrote
    /\ request_log' = peer.request_log
    /\ attempt_log' = peer.attempt_log
    /\ idx_result' = peer.idx_result
    /\ UNCHANGED <<catalog, fpc, run, fetchLocals, returned, summaries, task, scanVars,
                   workflow, call, db, entry, fs, remote_size, initial_file, difVars>>

\* as_completed over both futures: each one that did not raise is counted.
DifCollectBoth ==
    /\ dif_pc = "wait"
    /\ idx_pc = "done"
    /\ peer.idx_pc = "done"
    /\ success_count' = success_count + (IF idx_result = "raised" THEN 0 ELSE 1)
                                       + (IF peer.idx_result = "raised" THEN 0 ELSE 1)
    /\ dif_returned' = IF success_count' > 0 THEN "True" ELSE "False"
    /\ dif_pc' = "returned"
    /\ UNCHANGED <<notDif, entry, fs, remote_size, initial_file, idx_pc, attempt,
                   existing_size, mode, headers, body, wrote, request_log, attempt_log,
                   idx_result, index_files>>

NextThreads ==
    \/ DifListRepeated
    \/ Switch
    \/ DifCollectBoth
    \/ IdxMakedirsError
    \/ IdxCheck
    \/ IdxRequest
    \/ IdxResponseBody
    \/ IdxResponse416
    \/ IdxResponseError
    \/ IdxRequestError
    \/ IdxWriteChunk
    \/ IdxStreamDone
    \/ IdxStreamError
    \/ IdxExcept
    \/ IdxSleepDone

\* download_index_files with a remote index file of one byte, and the local
\* file absent or complete.
InitThreads ==
    /\ InitDownloadIndexFiles
    /\ remote_size = 1
    /\ initial_file \in {Absent, File(Bytes(remote_size))}
    /\ CatalogIdle
    /\ ScanIdle
    /\ AuxIdle

SpecThreads == InitThreads /\ [][NextThreads]_vars

\* C33: when the listing holds the href of one index file twice, the two
\* download_file calls for its save_path do not overlap: while one of them
\* has the file open for writing, the other one is not inside its call.
C33_OneThreadPerFile ==
    /\ (idx_pc = "stream") => ~InCall(peer.idx_pc)
    /\ (peer.idx_pc = "stream") => ~InCall(idx_pc)

\* The threads of the executor are scheduled, every request is answered or
\* times out, and time.sleep returns.
SpecIndexFair == InitIndex /\ [][NextIndex]_vars /\ WF_vars(NextIndex)

Txt == <<".", "t", "x", "t">>

\* Paths for clean_file_path: the prefix absent, single or duplicated; a plain
\* name, a name under a directory whose own name holds ".nnc", a name without
\* the region; the suffix right, misspelt, another one, or none.
CleanInputs ==
    {pre \o mid \o suf :
        pre \in {<<>>, DataSlash, DataDataSlash},
        mid \in {REGION \o Sl \o A, REGION \o Sl \o B \o DotNnc \o Sl \o A, A},
        suf \in {DotNc, DotNnc, Txt, <<>>}}

\* Local files for the presence checks.
CheckedFiles == {Absent} \cup {File(Bytes(n)) : n \in 0..MaxLen}

\* Answers to requests.head(url): 200 with a content-length, or a failure
\* (non-200, timeout, exception).
HeadAnswers ==
    {[ok |-> TRUE, content_length |-> c] : c \in 0..MaxLen}
    \cup {[ok |-> FALSE, content_length |-> 0]}

NewCall(fn, arg) == [pc |-> "called", fn |-> fn, arg |-> arg, out |-> "none"]

Return(c, out) == [c EXCEPT !.pc = "returned", !.out = out]

ApplyCleanFilePath ==
    /\ call.pc = "called"
    /\ call.fn = "clean_file_path"
    /\ call' = Return(call, clean_file_path(call.arg))
    /\ UNCHANGED <<catVars, scanVars, idxVars, workflow, peer, db>>

ApplyIsFileComplete ==
    /\ call.pc = "called"
    /\ call.fn = "is_file_complete"
    /\ call' = Return(call, is_file_complete(call.arg.file, call.arg.head))
    /\ UNCHANGED <<catVars, scanVars, idxVars, workflow, peer, db>>

ApplyIsFileValid ==
    /\ call.pc = "called"
    /\ call.fn = "is_file_valid"
    /\ call' = Return(call, is_file_valid(fs, call.arg))
    /\ UNCHANGED <<catVars, scanVars, idxVars, workflow, peer, db>>

NextFunction ==
    \/ ApplyCleanFilePath
    \/ ApplyIsFileComplete
    \/ ApplyIsFileValid

InitFunction ==
    /\ entry = "function"
    /\ \/ /\ \E p \in CleanInputs : call = NewCall("clean_file_path", p)
          /\ fs = <<>>
       \/ /\ \E f \in CheckedFiles, h \in HeadAnswers :
                call = NewCall("is_file_complete", [file |-> f, head |-> h])
          /\ fs = <<>>
       \/ /\ call = NewCall("is_file_valid", SavePath)
          /\ \E f \in CheckedFiles : fs = (SavePath :> f)
    /\ workflow = [pc |-> "idle"]
    /\ peer = [idx_pc |-> "idle"]
    /\ db = [pc |-> "idle"]
    /\ CatalogIdle
    /\ ScanIdle
    /\ IndexIdle

SpecFunction == InitFunction /\ [][NextFunction]_vars

\* C24: clean_file_path drops a leading "data/" only from a path that begins
\* with "data/data/", which then begins with a single "data/"; a path that
\* begins with a single "data/" still begins with it, and a path without the
\* prefix gets none.
C24_PrefixRule ==
    (call.pc = "returned" /\ call.fn = "clean_file_path") =>
        /\ StartsWith(call.arg, DataDataSlash)
              => (StartsWith(call.out, DataSlash) /\ ~StartsWith(call.out, DataDataSlash))
        /\ ~StartsWith(call.arg, DataDataSlash)
              => (StartsWith(call.arg, DataSlash) <=> StartsWith(call.out, DataSlash))

\* C25: after the prefix rule, clean_file_path turns a trailing ".nnc" into
\* ".nc" and changes nothing else: a path that does not end with ".nnc" is
\* returned as it is, and no character before the final suffix is altered.
C25_SuffixRule ==
    (call.pc = "returned" /\ call.fn = "clean_file_path") =>
        \E d \in {0, Len(DataSlash)} :
            /\ d <= Len(call.arg)
            /\ d > 0 => StartsWith(call.arg, DataSlash)
            /\ LET p1 == Drop(call.arg, d)
               IN  IF EndsWith(p1, DotNnc)
                   THEN call.out = SubSeq(p1, 1, Len(p1) - Len(DotNnc)) \o DotNc
                   ELSE call.out = p1

\* C36: clean_file_path applied to a path it has returned gives that path
\* again.
C36_CleanIdempotent ==
    (call.pc = "returned" /\ call.fn = "clean_file_path")
        => clean_file_path(call.out) = call.out

\* C26: is_file_complete is False for an absent file, True for an existing
\* file whose size equals the size the server reports (zero included), and
\* True for an existing non-empty file when the server size cannot be had.
C26_PresenceKnownSize ==
    (call.pc = "returned" /\ call.fn = "is_file_complete") =>
        LET f == call.arg.file
            h == call.arg.head
        IN  /\ ~f.exists => call.out = FALSE
            /\ (f.exists /\ h.ok /\ Len(f.data) = h.content_length) => call.out = TRUE
            /\ (f.exists /\ ~h.ok /\ Len(f.data) > 0) => call.out = TRUE

\* ----------------------------------------------------------- db_config.py

\* The most index files glob finds for one region and year.
MaxFiles == 3

dbVars == <<catVars, scanVars, idxVars, workflow, call, peer>>

\* glob(pattern): no file ("No index files found", return False), or the
\* files, each submitted to the executor as ingest_file(file).
StdGlob ==
    /\ db.pc = "glob"
    /\ \E n \in 0..MaxFiles :
          db' = IF n = 0
                THEN [db EXCEPT !.pc = "returned", !.returned = "False"]
                ELSE [db EXCEPT !.pc = "wait", !.txt_files = 1..n,
                                !.future = [f \in 1..n |-> "running"]]
    /\ UNCHANGED dbVars

\* An exception in the body of save_to_database (the executor cannot be
\* created): "Database save failed", return False.
StdExcept ==
    /\ db.pc = "glob"
    /\ db' = [db EXCEPT !.pc = "returned", !.returned = "False"]
    /\ UNCHANGED dbVars

\* ingest_file: the file is read, copied into the table and committed.
IngestCommit(f) ==
    /\ db.pc = "wait"
    /\ db.future[f] = "running"
    /\ db' = [db EXCEPT !.future[f] = "inserted", !.committed = @ \cup {f}]
    /\ UNCHANGED dbVars

\* ingest_file: open, connect or COPY raises before the commit; the except
\* clause prints "Failed" and the function returns None.
IngestFail(f) ==
    /\ db.pc = "wait"
    /\ db.future[f] = "running"
    /\ db' = [db EXCEPT !.future[f] = "failed"]
    /\ UNCHANGED dbVars

\* as_completed: future.result() of a finished ingest_file raises nothing.
StdCollect(f) ==
    /\ db.pc = "wait"
    /\ db.future[f] \in {"inserted", "failed"}
    /\ f \notin db.collected
    /\ db' = [db EXCEPT !.collected = @ \cup {f}, !.success_count = @ + 1]
    /\ UNCHANGED dbVars

\* After the executor block: True when success_count > 0.
StdReturn ==
    /\ db.pc = "wait"
    /\ db.collected = db.txt_files
    /\ db' = [db EXCEPT !.pc = "returned",
                        !.returned = IF db.success_count > 0 THEN "True" ELSE "False"]
    /\ UNCHANGED dbVars

NextDatabase ==
    \/ StdGlob
    \/ StdExcept
    \/ \E f \in 1..MaxFiles : f \in db.txt_files /\ IngestCommit(f)
    \/ \E f \in 1..MaxFiles : f \in db.txt_files /\ IngestFail(f)
    \/ \E f \in 1..MaxFiles : f \in db.txt_files /\ StdCollect(f)
    \/ StdReturn

InitDatabase ==
    /\ entry = "save_to_database"
    /\ db = [pc |-> "glob", txt_files |-> {}, future |-> <<>>, committed |-> {},
             collected |-> {}, success_count |-> 0, returned |-> "none"]
    /\ workflow = [pc |-> "idle"]
    /\ call = [pc |-> "idle"]
    /\ peer = [idx_pc |-> "idle"]
    /\ fs = <<>>
    /\ CatalogIdle
    /\ ScanIdle
    /\ IndexIdle

SpecDatabase == InitDatabase /\ [][NextDatabase]_vars

\* C37: save_to_database returns True only when ingest_file has committed at
\* least one file, and returns False when ingest_file failed for every file.
C37_IngestionReflected ==
    db.pc = "returned" =>
        /\ db.returned = "True" => db.committed # {}
        /\ (db.txt_files # {} /\ \A f \in db.txt_files : db.future[f] = "failed")
              => db.returned = "False"

\* ------------------------------------------------------- main_workflow.py

\* regions of get_user_input, and some of the years it accepts.
Regions == {"atlantic", "pacific", "indian"}
Years == {2000, 2020}

\* The function main_workflow calls at each step.
StepCall(k) ==
    CASE k = 1 -> "download_index_files"
      [] k = 2 -> "save_to_database"
      [] k = 3 -> "check_and_download_files"
      [] k = 4 -> "download_netcdf_files"
      [] k = 5 -> "convert_data"
      [] k = 6 -> "merge_parquet_files"
      [] k = 7 -> "inspect_final_data"

LastStep == 7

Ended(w, outcome, value) ==
    [w EXCEPT !.log = Append(@, [call |-> StepCall(w.step), outcome |-> outcome]),
              !.pc = "returned", !.returned = value]

\* get_user_input returned (region, year).
WfInput ==
    /\ workflow.pc = "input"
    /\ \E r \in Regions, y \in Years :
          workflow' = [workflow EXCEPT !.region = r, !.year = y, !.step = 1, !.pc = "call"]
    /\ UNCHANGED <<catVars, scanVars, idxVars, call, peer, db>>

\* get_user_input raised (end of input, Ctrl-C): except, return False.
WfInputRaises ==
    /\ workflow.pc = "input"
    /\ workflow' = [workflow EXCEPT !.pc = "returned", !.returned = "False"]
    /\ UNCHANGED <<catVars, scanVars, idxVars, call, peer, db>>

\* print_header, and the step's function is called.
WfCall ==
    /\ workflow.pc = "call"
    /\ workflow' = [workflow EXCEPT !.pc = "running"]
    /\ UNCHANGED <<catVars, scanVars, idxVars, call, peer, db>>

\* A step that goes on after its function reported failure.
WfStepFailureIgnored ==
    /\ workflow.pc = "running"
    /\ workflow' =
          IF workflow.step = LastStep THEN Ended(workflow, "failure", "True")
          ELSE [workflow EXCEPT
                  !.log = Append(@, [call |-> StepCall(workflow.step), outcome |-> "failure"]),
                  !.step = @ + 1, !.pc = "call"]
    /\ UNCHANGED <<catVars, scanVars, idxVars, call, peer, db>>

\* The function returned a true value: the next step, or return True after
\* the last one.
WfStepSuccess ==
    /\ workflow.pc = "running"
    /\ workflow' =
          IF workflow.step = LastStep THEN Ended(workflow, "success", "True")
          ELSE [workflow EXCEPT
                  !.log = Append(@, [call |-> StepCall(workflow.step), outcome |-> "success"]),
                  !.step = @ + 1, !.pc = "call"]
    /\ UNCHANGED <<catVars, scanVars, idxVars, call, peer, db>>

\* The function returned a false value: print_error, return False.
WfStepFailure ==
    /\ workflow.pc = "running"
    /\ workflow' = Ended(workflow, "failure", "False")
    /\ UNCHANGED <<catVars, scanVars, idxVars, call, peer, db>>

\* The function raised (Exception or KeyboardInterrupt): return False.
WfStepRaises ==
    /\ workflow.pc = "running"
    /\ workflow' = Ended(workflow, "raised", "False")
    /\ UNCHANGED <<catVars, scanVars, idxVars, call, peer, db>>

NextWorkflow ==
    \/ WfInput
    \/ WfInputRaises
    \/ WfCall
    \/ WfStepSuccess
    \/ WfStepFailure
    \/ WfStepRaises

InitWorkflow ==
    /\ entry = "main_workflow"
    /\ workflow = [pc |-> "input", region |-> "none", year |-> 0, step |-> 0,
                   log |-> <<>>, returned |-> "none"]
    /\ call = [pc |-> "idle"]
    /\ peer = [idx_pc |-> "idle"]
    /\ db = [pc |-> "idle"]
    /\ fs = <<>>
    /\ CatalogIdle
    /\ ScanIdle
    /\ IndexIdle

SpecWorkflow == InitWorkflow /\ [][NextWorkflow]_vars

\* C29: the steps that have ended are, in this order, index download,
\* database save, file existence check, NetCDF download, conversion, parquet
\* merge and inspection; every step before the last ended one reported
\* success, and so did every step before the one that is running; a step that
\* reported failure or raised is the last one and main_workflow has returned
\* False; main_workflow returns True exactly when all seven reported success;
\* it never ends otherwise than by returning True or False.
C29_WorkflowOrdering ==
    (workflow.pc # "idle") =>
        LET order == <<"download_index_files", "save_to_database",
                       "check_and_download_files", "download_netcdf_files",
                       "convert_data", "merge_parquet_files", "inspect_final_data">>
            log == workflow.log
        IN  /\ Len(log) <= Len(order)
            /\ \A i \in DOMAIN log : log[i].call = order[i]
            /\ \A i \in DOMAIN log : i < Len(log) => log[i].outcome = "success"
            /\ workflow.pc \in {"call", "running"}
                  => /\ workflow.step = Len(log) + 1
                     /\ \A i \in DOMAIN log : log[i].outcome = "success"
            /\ \A i \in DOMAIN log :
                  log[i].outcome \in {"failure", "raised"}
                    => (workflow.pc = "returned" /\ workflow.returned = "False")
            /\ workflow.returned = "True"
                  <=> (Len(log) = Len(order) /\ \A i \in DOMAIN log : log[i].outcome = "success")
            /\ workflow.pc = "returned" <=> workflow.returned \in {"True", "False"}
            /\ workflow.returned \in {"none", "True", "False"}

\* Three steps reported success and the fourth raised.
C29_Witness ==
    /\ workflow.pc = "returned"
    /\ Len(workflow.log) = 4
    /\ workflow.log[4].outcome = "raised"
    /\ workflow.returned = "False"

\* All seven steps reported success.
C29_WitnessSuccess ==
    /\ workflow.pc = "returned"
    /\ workflow.returned = "True"

\* ------------------------------------------------------ claims on retries

\* download_nc_file called on its own, or the index download_file.
InitRetry == (InitNc /\ ScanIdle /\ IndexIdle /\ AuxIdle) \/ InitIndex

NextRetry == NextNc \/ NextIndex

SpecRetry == InitRetry /\ [][NextRetry]_vars

TwoTransient(log) == Len(log) >= 2 /\ log[1] \in Transient /\ log[2] \in Transient

\* C31: in download_nc_file with retries >= 2, a second or later attempt of a
\* task starts only from the backoff wait (asyncio.sleep), whether the attempt
\* before it ended by an exception or by a status other than 200 and 404.
C31_BackoffBeforeRetry ==
    [][\A t \in DOMAIN task :
          (/\ t \in DOMAIN task'
           /\ task[t].retries >= 2
           /\ task[t].i >= 1
           /\ task'[t].i = task[t].i + 1)
              => task[t].pc = "sleep"]_vars

C7_WitnessIndex ==
    /\ Len(initial_file.data) > 0
    /\ attempt_log = <<"reset", "5xx", "done">>
    /\ request_log[Len(request_log)].status = "200"
    /\ remote_size = MaxLen
    /\ idx_pc = "done"

====
